---- MODULE Spec2Model ----
(***************************************************************************)
(* nep-ipo-reminder: the send pipeline of src/pipeline.py (run_pipeline    *)
(* and the ledger helpers it calls) as a state machine.  One behaviour is  *)
(* a sequence of invocations of run_pipeline against one persisted ledger  *)
(* file, with the clock advancing between the runs (a run takes no time at *)
(* the granularity of the clock).                                          *)
(*                                                                         *)
(* Strings are sequences of characters (<<>> is "").  An optional string   *)
(* (os.getenv, dict.get) is <<>> for None and <<s>> for the string s.      *)
(* Time is counted in whole days.                                          *)
(***************************************************************************)
EXTENDS Integers, Sequences, FiniteSets, TLC

VARIABLES
    file,        \* data/sent_ledger.json on disk
    now,         \* the wall clock, in days
    ticks,       \* how often the clock has advanced
    runs,        \* invocations of run_pipeline so far
    pc,          \* position of the current invocation
    exit,        \* how the current invocation ended ("none" while running)
    force_send,  \* run_pipeline's arguments
    dev_mode,
    dedupe_salt, \* os.getenv("DEDUPE_SALT") of the current run
    open_rows,   \* result of fetch_all_open_issues
    emails,      \* recipients of the current run
    ledger,      \* the in-memory ledger
    sent_count,
    i,           \* index into open_rows of the row being processed
    j,           \* index into emails of the next recipient
    sends,       \* history: the send_email calls of this run, in order
    io,          \* history: external operations of this run
    file0,       \* history: the ledger file when this run started
    cfg_missing, \* history: this run found a required setting unset or empty
    prevSent,    \* history: pairs delivered by the previous run, if that run
                 \*   was not forced, not dev, and died of a transport failure,
                 \*   and this run's inputs are the same so far
    same,        \* history: this run's offerings and recipients equal the
                 \*   previous run's, so far
    call         \* a helper called on its own: its name, arguments and
                 \*   results ("none" while run_pipeline is what runs)

vars == <<file, now, ticks, runs, pc, exit, force_send, dev_mode, dedupe_salt,
          open_rows, emails, ledger, sent_count, i, j, sends, io, file0,
          cfg_missing, prevSent, same, call>>

(***************************************************************************)
(* Bounds of the model.                                                    *)
(***************************************************************************)
MaxRows == 2        \* offerings returned by one scrape
MaxContacts == 2    \* contacts returned by one contact fetch
MaxRuns == 2        \* invocations of run_pipeline in one behaviour
MaxTicks == 1       \* clock advances in one behaviour

(***************************************************************************)
(* Program constants.                                                      *)
(***************************************************************************)
RetentionDays == 90
DEV_EMAIL == <<"suyoginusa@gmail.com">>

None == <<>>
Some(s) == <<s>>
EmptyMap == <<>>

\* python truthiness of an optional string: None and "" are falsy
Falsy(opt) == IF opt = None THEN TRUE ELSE opt[1] = <<>>

\* `x or ""`
OrEmpty(opt) == IF Falsy(opt) THEN <<>> ELSE opt[1]

\* f restricted to the keys in S
Restrict(f, S) == IF S = {} THEN EmptyMap ELSE [k \in S |-> f[k]]

\* dict assignment d[k] = v
Put(d, k, v) ==
    IF DOMAIN d = {} THEN (k :> v) ELSE [x \in DOMAIN d \cup {k} |-> IF x = k THEN v ELSE d[x]]

\* del d[k]
Del(d, k) == Restrict(d, DOMAIN d \ {k})

\* all sequences over S of length at most n
SeqsUpTo(S, n) == UNION {[1..k -> S] : k \in 0..n}

(***************************************************************************)
(* str.strip(): leading and trailing white space removed.                  *)
(***************************************************************************)
RECURSIVE LStrip(_)
LStrip(s) == IF s # <<>> /\ Head(s) = " " THEN LStrip(Tail(s)) ELSE s

RECURSIVE RStrip(_)
RStrip(s) ==
    IF s # <<>> /\ s[Len(s)] = " " THEN RStrip(SubSeq(s, 1, Len(s) - 1)) ELSE s

Strip(s) == RStrip(LStrip(s))

(***************************************************************************)
(* parse_iso_date: date.fromisoformat.  The closing dates of the model are *)
(* either written YYYY-MM-DD or are no date in any format, so the extended *)
(* formats newer interpreters also accept play no part.                    *)
(***************************************************************************)
Digits == {"0", "1", "2", "3", "4", "5", "6", "7", "8", "9"}

DigitVal(c) ==
    CASE c = "0" -> 0 [] c = "1" -> 1 [] c = "2" -> 2 [] c = "3" -> 3
      [] c = "4" -> 4 [] c = "5" -> 5 [] c = "6" -> 6 [] c = "7" -> 7
      [] c = "8" -> 8 [] c = "9" -> 9

IsLeap(y) == (y % 4 = 0 /\ y % 100 # 0) \/ y % 400 = 0

DaysInMonth(y, m) ==
    IF m = 2 THEN (IF IsLeap(y) THEN 29 ELSE 28)
    ELSE IF m \in {4, 6, 9, 11} THEN 30 ELSE 31

\* [err |-> TRUE] is ValueError; otherwise the date
parse_iso_date(value) ==
    IF /\ Len(value) = 10
       /\ value[5] = "-" /\ value[8] = "-"
       /\ \A p \in {1, 2, 3, 4, 6, 7, 9, 10} : value[p] \in Digits
    THEN LET y == 1000 * DigitVal(value[1]) + 100 * DigitVal(value[2])
                  + 10 * DigitVal(value[3]) + DigitVal(value[4])
             m == 10 * DigitVal(value[6]) + DigitVal(value[7])
             d == 10 * DigitVal(value[9]) + DigitVal(value[10])
         IN  IF y >= 1 /\ m \in 1..12 /\ d >= 1 /\ d <= DaysInMonth(y, m)
             THEN [err |-> FALSE, y |-> y, m |-> m, d |-> d]
             ELSE [err |-> TRUE, y |-> 0, m |-> 0, d |-> 0]
    ELSE [err |-> TRUE, y |-> 0, m |-> 0, d |-> 0]

(***************************************************************************)
(* Identity and hashing.                                                   *)
(***************************************************************************)
\* [err |-> TRUE] is ValueError("Missing Symbol or Opening Date.")
issue_id_from_row(row) ==
    LET symbol == Strip(OrEmpty(row.Symbol))
        opening == Strip(OrEmpty(row.OpeningDate))
    IN  IF symbol = <<>> \/ opening = <<>>
        THEN [err |-> TRUE, id |-> <<>>]
        ELSE [err |-> FALSE, id |-> symbol \o <<"|">> \o opening]

\* HMAC-SHA256 taken as collision free: the digest stands for its inputs
hmac_hash(salt, value) == <<salt, value>>

\* the dedupe key of line 305
DedupeKey(salt, email, issue_id) == hmac_hash(salt, email \o <<"|">> \o issue_id)

(***************************************************************************)
(* Ledger store.  A JSON document on disk is                               *)
(*   [kind |-> "absent" | "unreadable" | "garbage" | "json", top, m]       *)
(* where, for kind "json", top says whether the top-level value is an      *)
(* object ("dict") and m maps each offering identity to a bucket           *)
(* [b, e]: b says whether the value is an object, e maps each dedupe key   *)
(* to a stored value [k, t] with k one of                                  *)
(*   "aware"  - an ISO-8601 string with a UTC offset, for day t            *)
(*   "naive"  - an ISO-8601 string without offset, for day t               *)
(*   "junk"   - a string that is no ISO-8601 timestamp                     *)
(*   "nonstr" - a JSON value that is no string                             *)
(***************************************************************************)
AbsentFile == [kind |-> "absent", top |-> "dict", m |-> EmptyMap]

\* datetime.now(timezone.utc).isoformat()
isoformat(t) == [k |-> "aware", t |-> t]

\* datetime.fromisoformat
fromisoformat(v) ==
    CASE v.k = "nonstr" -> [err |-> "TypeError", tz |-> FALSE, t |-> 0]
      [] v.k = "junk" -> [err |-> "ValueError", tz |-> FALSE, t |-> 0]
      [] v.k = "naive" -> [err |-> "none", tz |-> FALSE, t |-> v.t]
      [] v.k = "aware" -> [err |-> "none", tz |-> TRUE, t |-> v.t]

\* a file that cannot be read or parsed taken for an empty ledger
load_ledger_Lenient(f) ==
    IF f.kind = "json"
    THEN [err |-> "none", top |-> f.top, m |-> f.m]
    ELSE [err |-> "none", top |-> "dict", m |-> EmptyMap]

load_ledger(f) ==
    CASE f.kind = "absent" -> [err |-> "none", top |-> "dict", m |-> EmptyMap]
      [] f.kind = "unreadable" -> [err |-> "OSError", top |-> "dict", m |-> EmptyMap]
      [] f.kind = "garbage" -> [err |-> "JSONDecodeError", top |-> "dict", m |-> EmptyMap]
      [] f.kind = "json" -> [err |-> "none", top |-> f.top, m |-> f.m]

\* an empty mapping written whatever the ledger holds
save_ledger_WritesEmpty(l) == [kind |-> "json", top |-> "dict", m |-> EmptyMap]

save_ledger(l) == [kind |-> "json", top |-> "dict", m |-> l]

\* lines 83-90: the inner loop over list(entries.keys())
RECURSIVE PruneEntries(_, _, _)
PruneEntries(entries, keys, cutoff) ==
    IF keys = {} THEN [err |-> "none", e |-> entries]
    ELSE LET key == CHOOSE k \in keys : TRUE
             ts == fromisoformat(entries[key])
         IN  IF ts.err = "ValueError"
             THEN PruneEntries(Del(entries, key), keys \ {key}, cutoff)
             ELSE IF ts.err # "none" THEN [err |-> ts.err, e |-> entries]
             \* an offset-naive datetime does not compare with the aware cutoff
             ELSE IF ~ts.tz THEN [err |-> "TypeError", e |-> entries]
             ELSE IF ts.t < cutoff
             THEN PruneEntries(Del(entries, key), keys \ {key}, cutoff)
             ELSE PruneEntries(entries, keys \ {key}, cutoff)

\* the emptiness test of line 91 made on the bucket as it was before its
\* records were removed
RECURSIVE PruneIssues_TestsEmptyFirst(_, _, _)
PruneIssues_TestsEmptyFirst(m, ids, cutoff) ==
    IF ids = {} THEN [err |-> "none", m |-> m]
    ELSE LET issue_id == CHOOSE x \in ids : TRUE
             bucket == m[issue_id]
             r == PruneEntries(bucket.e, DOMAIN bucket.e, cutoff)
         IN  IF r.err # "none"
             THEN [err |-> r.err, m |-> Put(m, issue_id, [b |-> "dict", e |-> r.e])]
             ELSE IF DOMAIN bucket.e = {}
             THEN PruneIssues_TestsEmptyFirst(Del(m, issue_id), ids \ {issue_id}, cutoff)
             ELSE PruneIssues_TestsEmptyFirst(Put(m, issue_id, [b |-> "dict", e |-> r.e]),
                                              ids \ {issue_id}, cutoff)

\* lines 81-92: the outer loop over list(ledger.keys())
RECURSIVE PruneIssues(_, _, _)
PruneIssues(m, ids, cutoff) ==
    IF ids = {} THEN [err |-> "none", m |-> m]
    ELSE LET issue_id == CHOOSE x \in ids : TRUE
             bucket == m[issue_id]
         IN  IF bucket.b # "dict" THEN [err |-> "AttributeError", m |-> m]
             ELSE LET r == PruneEntries(bucket.e, DOMAIN bucket.e, cutoff)
                  IN  IF r.err # "none"
                      THEN [err |-> r.err,
                            m |-> Put(m, issue_id, [b |-> "dict", e |-> r.e])]
                      ELSE IF DOMAIN r.e = {}
                      THEN PruneIssues(Del(m, issue_id), ids \ {issue_id}, cutoff)
                      ELSE PruneIssues(Put(m, issue_id, [b |-> "dict", e |-> r.e]),
                                       ids \ {issue_id}, cutoff)

\* prune_ledger on what json.load returned, at clock reading t
prune_ledger(top, m, days, t) ==
    IF top # "dict" THEN [err |-> "AttributeError", m |-> m]
    ELSE PruneIssues(m, DOMAIN m, t - days)

\* ledger.setdefault(issue_id, {})
SetDefault(l, issue_id) ==
    IF issue_id \in DOMAIN l THEN l ELSE Put(l, issue_id, [b |-> "dict", e |-> EmptyMap])

(***************************************************************************)
(* The inputs the environment can supply.                                  *)
(***************************************************************************)
GoodDate == <<"2", "0", "2", "6", "-", "0", "2", "-", "0", "9">>
BadDate == <<"T", "B", "A">>

Row(symbol, opening, closing) ==
    [Symbol |-> symbol, OpeningDate |-> opening, ClosingDate |-> closing]

RowA == Row(Some(<<"A">>), Some(<<"1">>), Some(GoodDate))
RowB == Row(Some(<<" ", "B">>), Some(<<"1", " ">>), Some(GoodDate))
RowBlankSymbol == Row(Some(<<" ">>), Some(<<"1">>), Some(GoodDate))
RowNoOpening == Row(Some(<<"A">>), None, Some(GoodDate))
RowBlankClosing == Row(Some(<<"A">>), Some(<<"1">>), Some(<<>>))
RowBadClosing == Row(Some(<<"B">>), Some(<<"1">>), Some(BadDate))

RowPool ==
    {RowA, RowB, RowBlankSymbol, RowNoOpening, RowBlankClosing, RowBadClosing}

IdA == <<"A", "|", "1">>
IdB == <<"B", "|", "1">>

\* a contact is what c.get("email") gives for it
ContactPool == {Some(<<"a@x">>), Some(<<"b@x">>), None}

Salt == <<"s">>

Required ==
    {"BREVO_API_KEY", "BREVO_LIST_ID", "BREVO_SMTP_USER", "BREVO_SMTP_PASS",
     "DEDUPE_SALT"}

GoodEnv ==
    [n \in Required \cup {"BREVO_SMTP_PORT"} |->
        IF n = "BREVO_SMTP_PORT" THEN None
        ELSE IF n = "DEDUPE_SALT" THEN Some(Salt) ELSE Some(<<"v">>)]

\* at most one required value unset or empty; the port unset, or set and empty
EnvPool ==
    LET req == {GoodEnv} \cup
               {[GoodEnv EXCEPT ![n] = v] : n \in Required, v \in {None, Some(<<>>)}}
    IN  {[e EXCEPT !["BREVO_SMTP_PORT"] = p] :
            e \in req, p \in {None, Some(<<>>)}}

\* what one scrape, one contact fetch can return
RowSeqs == SeqsUpTo(RowPool, MaxRows)
ContactSeqs == SeqsUpTo(ContactPool, MaxContacts)

\* os.getenv(name, default)
Getenv(env, name, default) == IF env[name] = None THEN default ELSE env[name][1]

\* whether int(s) succeeds (the model's port strings carry no sign)
IsInt(s) == LET x == Strip(s) IN x # <<>> /\ \A p \in 1..Len(x) : x[p] \in Digits

\* lines 220-226
Missing(env) == {n \in Required : Falsy(env[n])}

\* the ledger files a behaviour may start from: none, and files damaged
\* from outside (the program itself writes save_ledger's output only)
KeyAa == DedupeKey(Salt, <<"a@x">>, IdA)

InitFiles ==
    {AbsentFile,
     [kind |-> "unreadable", top |-> "dict", m |-> EmptyMap],
     [kind |-> "garbage", top |-> "dict", m |-> EmptyMap],
     [kind |-> "json", top |-> "other", m |-> EmptyMap],
     [kind |-> "json", top |-> "dict",
      m |-> (IdA :> [b |-> "other", e |-> EmptyMap])],
     [kind |-> "json", top |-> "dict",
      m |-> (IdA :> [b |-> "dict", e |-> (KeyAa :> [k |-> "nonstr", t |-> 0])])]}

\* the file parses as a mapping of identity to mapping of key to string
WellFormed(f) ==
    /\ f.kind = "json"
    /\ f.top = "dict"
    /\ \A id \in DOMAIN f.m :
          /\ f.m[id].b = "dict"
          /\ \A k \in DOMAIN f.m[id].e : f.m[id].e[k].k # "nonstr"

NoCall == [fn |-> "none", arg |-> <<>>, ret |-> <<>>]

NoIo == [scrapes |-> 0, fetches |-> 0, reads |-> 0, writes |-> 0, pruned |-> FALSE]

\* the pairs a sequence of send_email calls delivered
Delivered(log) == {<<log[n].to, log[n].id>> : n \in {x \in 1..Len(log) : log[x].ok}}

\* before the first invocation of run_pipeline
Idle ==
    /\ file \in InitFiles
    /\ now = 0
    /\ ticks = 0
    /\ runs = 0
    /\ pc = "idle"
    /\ exit = "none"
    /\ force_send = FALSE
    /\ dev_mode = FALSE
    /\ dedupe_salt = None
    /\ open_rows = <<>>
    /\ emails = <<>>
    /\ ledger = EmptyMap
    /\ sent_count = 0
    /\ i = 0
    /\ j = 0
    /\ sends = <<>>
    /\ io = NoIo
    /\ file0 = file
    /\ cfg_missing = FALSE
    /\ prevSent = {}
    /\ same = FALSE

Init == Idle /\ call = NoCall

(***************************************************************************)
(* run_pipeline, lines 207-229: read the configuration.  The run ends here *)
(* when int() rejects the port, or when a required value is unset or empty.*)
(***************************************************************************)
\* line 213
PortParses(env) == IsInt(Getenv(env, "BREVO_SMTP_PORT", <<"5", "8", "7">>))

\* the exit of lines 210-229, "none" when the run goes on
ConfigExit(env) ==
    IF ~PortParses(env) THEN "ValueError"
    ELSE IF Missing(env) # {} THEN "2" ELSE "none"

RejectedEnvs == {env \in EnvPool : ConfigExit(env) # "none"}
AcceptedEnvs == {env \in EnvPool : ConfigExit(env) = "none"}

\* the locals of a new invocation
Fresh(force, dev, env) ==
    /\ pc \in {"idle", "done"}
    /\ runs < MaxRuns
    /\ runs' = runs + 1
    /\ force_send' = force
    /\ dev_mode' = dev
    /\ dedupe_salt' = env["DEDUPE_SALT"]
    /\ ledger' = EmptyMap
    /\ sent_count' = 0
    /\ i' = 0
    /\ j' = 0
    /\ sends' = <<>>
    /\ file0' = file
    /\ cfg_missing' = (Missing(env) # {})
    /\ UNCHANGED <<call, file, now, ticks>>

RunRejected(force, dev, env) ==
    /\ Fresh(force, dev, env)
    /\ ConfigExit(env) # "none"
    /\ pc' = "done"
    /\ exit' = ConfigExit(env)
    /\ io' = NoIo
    /\ open_rows' = <<>>
    /\ emails' = <<>>
    /\ prevSent' = {}
    /\ same' = FALSE

(***************************************************************************)
(* Lines 207-235 with a complete configuration: the scrape, and the early  *)
(* exit on no open offerings.  (The scraper and the contact source are     *)
(* taken to answer: their failures end a run before it touches the ledger  *)
(* or sends mail.)                                                         *)
(***************************************************************************)
\* the previous run had a full set of inputs of its own
HadInputs == io.fetches = 1 /\ ~dev_mode

\* the early return of lines 234-235 lost
RunStarts_NoEarlyExit(force, dev, env, rows) ==
    /\ Fresh(force, dev, env)
    /\ ConfigExit(env) = "none"
    /\ io' = [NoIo EXCEPT !.scrapes = 1]
    /\ open_rows' = rows
    /\ same' = FALSE
    /\ prevSent' = {}
    /\ emails' = <<>>
    /\ pc' = "contacts"
    /\ exit' = "none"

RunStarts(force, dev, env, rows) ==
    /\ Fresh(force, dev, env)
    /\ ConfigExit(env) = "none"
    /\ io' = [NoIo EXCEPT !.scrapes = 1]
    /\ open_rows' = rows
    /\ IF HadInputs /\ rows = open_rows /\ rows # <<>>
       THEN /\ same' = TRUE
            /\ prevSent' = IF exit = "TransportError" /\ ~force_send
                           THEN Delivered(sends) ELSE {}
            /\ emails' = emails
       ELSE /\ same' = FALSE
            /\ prevSent' = {}
            /\ emails' = <<>>
    /\ IF rows = <<>>
       THEN pc' = "done" /\ exit' = "0"
       ELSE pc' = "contacts" /\ exit' = "none"

(***************************************************************************)
(* Lines 237-245: the contact fetch and the recipients.                    *)
(***************************************************************************)
\* [c.get("email") for c in contacts if c.get("email")]
Recipients(contacts) ==
    LET kept == SelectSeq(contacts, LAMBDA c : ~Falsy(c))
    IN  [n \in 1..Len(kept) |-> kept[n][1]]

\* the override of lines 243-245 lost
FetchContacts_NoOverride(contacts) ==
    /\ pc = "contacts"
    /\ io' = [io EXCEPT !.fetches = @ + 1]
    /\ emails' = Recipients(contacts)
    /\ same' = FALSE
    /\ prevSent' = {}
    /\ pc' = "load"
    /\ UNCHANGED <<call, file, now, ticks, runs, exit, force_send, dev_mode,
                   dedupe_salt, open_rows, ledger, sent_count, i, j, sends,
                   file0, cfg_missing>>

FetchContacts(contacts) ==
    /\ pc = "contacts"
    /\ io' = [io EXCEPT !.fetches = @ + 1]
    /\ emails' = IF dev_mode THEN <<DEV_EMAIL>> ELSE Recipients(contacts)
    /\ same' = (same /\ ~dev_mode /\ Recipients(contacts) = emails)
    /\ prevSent' = IF same /\ ~dev_mode /\ Recipients(contacts) = emails
                   THEN prevSent ELSE {}
    /\ pc' = "load"
    /\ UNCHANGED <<call, file, now, ticks, runs, exit, force_send, dev_mode,
                   dedupe_salt, open_rows, ledger, sent_count, i, j, sends,
                   file0, cfg_missing>>

(***************************************************************************)
(* Lines 247-251: load and prune the ledger, unless in dev mode.           *)
(***************************************************************************)
LoadDev ==
    /\ pc = "load"
    /\ dev_mode
    /\ ledger' = EmptyMap
    /\ sent_count' = 0
    /\ i' = 1
    /\ pc' = "row"
    /\ UNCHANGED <<call, file, now, ticks, runs, exit, force_send, dev_mode,
                   dedupe_salt, open_rows, emails, j, sends, io, file0,
                   cfg_missing, prevSent, same>>

LoadAndPrune ==
    /\ pc = "load"
    /\ ~dev_mode
    /\ LET l == load_ledger(file)
           p == prune_ledger(l.top, l.m, RetentionDays, now)
       IN  IF l.err # "none"
           THEN /\ pc' = "done" /\ exit' = l.err
                /\ io' = [io EXCEPT !.reads = @ + 1]
                /\ UNCHANGED <<call, ledger, sent_count, i>>
           ELSE IF p.err # "none"
           THEN /\ pc' = "done" /\ exit' = p.err
                /\ io' = [io EXCEPT !.reads = @ + 1]
                /\ UNCHANGED <<call, ledger, sent_count, i>>
           ELSE /\ pc' = "row" /\ exit' = exit
                /\ io' = [io EXCEPT !.reads = @ + 1, !.pruned = (p.m # l.m)]
                /\ ledger' = p.m
                /\ sent_count' = 0
                /\ i' = 1
    /\ UNCHANGED <<call, file, now, ticks, runs, force_send, dev_mode, dedupe_salt,
                   open_rows, emails, j, sends, file0, cfg_missing, prevSent, same>>

(***************************************************************************)
(* Lines 253-264: the head of the loop over open_rows.                     *)
(***************************************************************************)
\* the closing date check of lines 260-262 lost
SkipsRow_IgnoresClosing(row) == issue_id_from_row(row).err

\* the row is skipped: lines 254-262
SkipsRow(row) ==
    \/ issue_id_from_row(row).err
    \/ Falsy(row.ClosingDate)

RowSkip ==
    /\ pc = "row"
    /\ i <= Len(open_rows)
    /\ SkipsRow(open_rows[i])
    /\ i' = i + 1
    /\ UNCHANGED <<call, file, now, ticks, runs, pc, exit, force_send, dev_mode,
                   dedupe_salt, open_rows, emails, ledger, sent_count, j, sends,
                   io, file0, cfg_missing, prevSent, same>>

RowEnter ==
    /\ pc = "row"
    /\ i <= Len(open_rows)
    /\ ~SkipsRow(open_rows[i])
    /\ ledger' = SetDefault(ledger, issue_id_from_row(open_rows[i]).id)
    /\ j' = 1
    /\ pc' = "pair"
    /\ UNCHANGED <<call, file, now, ticks, runs, exit, force_send, dev_mode,
                   dedupe_salt, open_rows, emails, sent_count, i, sends, io,
                   file0, cfg_missing, prevSent, same>>

RowsDone ==
    /\ pc = "row"
    /\ i > Len(open_rows)
    /\ pc' = "persist"
    /\ UNCHANGED <<call, file, now, ticks, runs, exit, force_send, dev_mode,
                   dedupe_salt, open_rows, emails, ledger, sent_count, i, j,
                   sends, io, file0, cfg_missing, prevSent, same>>

(***************************************************************************)
(* Lines 300-324: one pass of the loop over emails.                        *)
(***************************************************************************)
CurId == issue_id_from_row(open_rows[i]).id
CurKey == DedupeKey(dedupe_salt[1], emails[j], CurId)

\* build_ics raises ValueError iff the closing date does not parse
BuildFails(row) == parse_iso_date(row.ClosingDate[1]).err

\* the dedupe check lost: every pair is sent
SkipsSend_Never(force, dev, key, bucket) == FALSE

\* line 306
SkipsSend(force, dev, key, bucket) == ~(dev \/ force) /\ key \in DOMAIN bucket.e

PairBuildFails ==
    /\ pc = "pair"
    /\ j <= Len(emails)
    /\ BuildFails(open_rows[i])
    /\ pc' = "done"
    /\ exit' = "ValueError"
    /\ UNCHANGED <<call, file, now, ticks, runs, force_send, dev_mode, dedupe_salt,
                   open_rows, emails, ledger, sent_count, i, j, sends, io,
                   file0, cfg_missing, prevSent, same>>

PairSkip ==
    /\ pc = "pair"
    /\ j <= Len(emails)
    /\ ~BuildFails(open_rows[i])
    /\ SkipsSend(force_send, dev_mode, CurKey, ledger[CurId])
    /\ j' = j + 1
    /\ UNCHANGED <<call, file, now, ticks, runs, pc, exit, force_send, dev_mode,
                   dedupe_salt, open_rows, emails, ledger, sent_count, i, sends,
                   io, file0, cfg_missing, prevSent, same>>

\* the send not recorded in the bucket
Record_Forgets(l, dev, issue_id, key, t) == l

\* the time of the send recorded without its UTC offset
Record_NaiveStamp(l, dev, issue_id, key, t) ==
    IF dev THEN l
    ELSE Put(l, issue_id, [b |-> "dict",
                           e |-> Put(l[issue_id].e, key, [k |-> "naive", t |-> t])])

\* lines 322-323
Record(l, dev, issue_id, key, t) ==
    IF dev THEN l
    ELSE Put(l, issue_id, [b |-> "dict", e |-> Put(l[issue_id].e, key, isoformat(t))])

PairSend ==
    /\ pc = "pair"
    /\ j <= Len(emails)
    /\ ~BuildFails(open_rows[i])
    /\ ~SkipsSend(force_send, dev_mode, CurKey, ledger[CurId])
    /\ sends' = Append(sends, [to |-> emails[j], id |-> CurId, ok |-> TRUE])
    /\ ledger' = Record(ledger, dev_mode, CurId, CurKey, now)
    /\ sent_count' = sent_count + 1
    /\ j' = j + 1
    /\ UNCHANGED <<call, file, now, ticks, runs, pc, exit, force_send, dev_mode,
                   dedupe_salt, open_rows, emails, i, io, file0, cfg_missing, prevSent, same>>

\* the exception caught and the loop continued
PairSendFails_Caught ==
    /\ pc = "pair"
    /\ j <= Len(emails)
    /\ ~BuildFails(open_rows[i])
    /\ ~SkipsSend(force_send, dev_mode, CurKey, ledger[CurId])
    /\ sends' = Append(sends, [to |-> emails[j], id |-> CurId, ok |-> FALSE])
    /\ j' = j + 1
    /\ UNCHANGED <<call, file, now, ticks, runs, pc, exit, force_send, dev_mode,
                   dedupe_salt, open_rows, emails, ledger, sent_count, i, io,
                   file0, cfg_missing, prevSent, same>>

\* the ledger saved on the way out
PairSendFails_Saves ==
    /\ pc = "pair"
    /\ j <= Len(emails)
    /\ ~BuildFails(open_rows[i])
    /\ ~SkipsSend(force_send, dev_mode, CurKey, ledger[CurId])
    /\ sends' = Append(sends, [to |-> emails[j], id |-> CurId, ok |-> FALSE])
    /\ file' = IF dev_mode THEN file ELSE save_ledger(ledger)
    /\ pc' = "done"
    /\ exit' = "TransportError"
    /\ UNCHANGED <<call, now, ticks, runs, force_send, dev_mode, dedupe_salt,
                   open_rows, emails, ledger, sent_count, i, j, io, file0,
                   cfg_missing, prevSent, same>>

\* send_email raises: the exception leaves run_pipeline
PairSendFails ==
    /\ pc = "pair"
    /\ j <= Len(emails)
    /\ ~BuildFails(open_rows[i])
    /\ ~SkipsSend(force_send, dev_mode, CurKey, ledger[CurId])
    /\ sends' = Append(sends, [to |-> emails[j], id |-> CurId, ok |-> FALSE])
    /\ pc' = "done"
    /\ exit' = "TransportError"
    /\ UNCHANGED <<call, file, now, ticks, runs, force_send, dev_mode, dedupe_salt,
                   open_rows, emails, ledger, sent_count, i, j, io, file0,
                   cfg_missing, prevSent, same>>

PairsDone ==
    /\ pc = "pair"
    /\ j > Len(emails)
    /\ i' = i + 1
    /\ pc' = "row"
    /\ UNCHANGED <<call, file, now, ticks, runs, exit, force_send, dev_mode,
                   dedupe_salt, open_rows, emails, ledger, sent_count, j, sends,
                   io, file0, cfg_missing, prevSent, same>>

(***************************************************************************)
(* Lines 326-330: persist and return.                                      *)
(***************************************************************************)
\* the ledger saved whether or not anything was sent
Saves_Always(count, dev) == ~dev

\* the ledger saved in dev mode too
Saves_InDev(count, dev) == count > 0

\* line 326
Saves(count, dev) == count > 0 /\ ~dev

Persist ==
    /\ pc = "persist"
    /\ IF Saves(sent_count, dev_mode)
       THEN file' = save_ledger(ledger) /\ io' = [io EXCEPT !.writes = @ + 1]
       ELSE UNCHANGED <<call, file, io>>
    /\ pc' = "done"
    /\ exit' = "0"
    /\ UNCHANGED <<call, now, ticks, runs, force_send, dev_mode, dedupe_salt,
                   open_rows, emails, ledger, sent_count, i, j, sends, file0,
                   cfg_missing, prevSent, same>>

(***************************************************************************)
(* The clock: after a run a retention window passes, or a day more.        *)
(***************************************************************************)
Tick(d) ==
    /\ pc = "done"
    /\ ticks < MaxTicks
    /\ ticks' = ticks + 1
    /\ now' = now + d
    /\ UNCHANGED <<call, file, runs, pc, exit, force_send, dev_mode, dedupe_salt,
                   open_rows, emails, ledger, sent_count, i, j, sends, io,
                   file0, cfg_missing, prevSent, same>>

\* the steps, with the offerings a scrape may return and the number of
\* invocations as parameters
Step(rowSeqs, maxRuns) ==
    \/ /\ pc \in {"idle", "done"}
       /\ runs < maxRuns
       /\ \E force \in BOOLEAN, dev \in BOOLEAN, env \in RejectedEnvs :
             RunRejected(force, dev, env)
    \/ /\ pc \in {"idle", "done"}
       /\ runs < maxRuns
       /\ \E force \in BOOLEAN, dev \in BOOLEAN, env \in AcceptedEnvs :
             \E rows \in rowSeqs : RunStarts(force, dev, env, rows)
    \/ pc = "contacts" /\ \E contacts \in ContactSeqs : FetchContacts(contacts)
    \/ LoadDev
    \/ LoadAndPrune
    \/ RowSkip
    \/ RowEnter
    \/ RowsDone
    \/ PairBuildFails
    \/ PairSkip
    \/ PairSend
    \/ PairSendFails
    \/ PairsDone
    \/ Persist
    \/ \E d \in {RetentionDays, RetentionDays + 1} : Tick(d)

Next == Step(RowSeqs, MaxRuns)

Spec == Init /\ [][Next]_vars

\* a single invocation, with every input of the pools
NextOneRun == Step(RowSeqs, 1)
SpecOneRun == Init /\ [][NextOneRun]_vars

\* invocations one after the other, on offerings that are well formed,
\* lack a closing date, or carry one that does not parse
RerunRows == SeqsUpTo({RowA, RowB, RowBlankClosing, RowBadClosing}, MaxRows)
NextRerun == Step(RerunRows, MaxRuns)
SpecRerun == Init /\ [][NextRerun]_vars

\* the same, on a machine that has no ledger file yet
InitNoFile == Init /\ file = AbsentFile
SpecNoFile == InitNoFile /\ [][NextRerun]_vars

(***************************************************************************)
(* What the claims speak of.                                               *)
(***************************************************************************)
\* the dedupe key of a pair in the current run
KeyOf(email, issue_id) == DedupeKey(dedupe_salt[1], email, issue_id)

\* the ledger file holds `key` under `issue_id`
FileHasKey(f, issue_id, key) ==
    /\ f.kind = "json"
    /\ f.top = "dict"
    /\ issue_id \in DOMAIN f.m
    /\ f.m[issue_id].b = "dict"
    /\ key \in DOMAIN f.m[issue_id].e

\* ... with a timestamp that parses and is no older than the retention
\* window at clock reading t
FileHasFreshKey(f, issue_id, key, t) ==
    /\ FileHasKey(f, issue_id, key)
    /\ f.m[issue_id].e[key].k = "aware"
    /\ f.m[issue_id].e[key].t >= t - RetentionDays

\* the file exists and cannot be read, or does not parse as a mapping of
\* identity to mapping of key to string
Malformed(f) ==
    \/ f.kind \in {"unreadable", "garbage"}
    \/ f.kind = "json" /\ ~WellFormed(f)

BlankAfterTrim(opt) == IF opt = None THEN TRUE ELSE Strip(opt[1]) = <<>>
Blank(opt) == IF opt = None THEN TRUE ELSE opt[1] = <<>>

\* Symbol or Opening Date missing or blank after trimming, or Closing Date blank
LacksField(row) ==
    \/ BlankAfterTrim(row.Symbol)
    \/ BlankAfterTrim(row.OpeningDate)
    \/ Blank(row.ClosingDate)

LoadErrors == {"OSError", "JSONDecodeError", "AttributeError", "TypeError"}

(***************************************************************************)
(* C1: idempotent notification.                                            *)
(***************************************************************************)
\* C1, as claimed: when the ledger file a run starts from holds the dedupe
\* key of a pair, a pass with the previous pass's offerings and recipients,
\* not forced and not in dev mode, makes no send_email call for that pair.
C1_NoSendForLedgerPair ==
    (same /\ ~force_send /\ ~dev_mode) =>
        \A n \in 1..Len(sends) :
            ~FileHasKey(file0, sends[n].id, KeyOf(sends[n].to, sends[n].id))

\* C1, amended: a run that is not forced and not in dev mode makes no
\* send_email call for a pair whose dedupe key the ledger file holds with a
\* timestamp that parses and is no older than the 90-day retention window.
C1_NoSendForFreshLedgerPair ==
    (~force_send /\ ~dev_mode) =>
        \A n \in 1..Len(sends) :
            ~FileHasFreshKey(file0, sends[n].id, KeyOf(sends[n].to, sends[n].id), now)

\* a second pass with the same inputs went through the loop and skipped a
\* pair that the file held
C1_PairSkippedOnSecondPass ==
    /\ pc = "done" /\ exit = "0"
    /\ same /\ ~force_send /\ ~dev_mode
    /\ io.reads = 1
    /\ sends = <<>>
    /\ \E r \in 1..Len(open_rows), e \in 1..Len(emails) :
          /\ ~SkipsRow(open_rows[r])
          /\ FileHasFreshKey(file0, issue_id_from_row(open_rows[r]).id,
                             KeyOf(emails[e], issue_id_from_row(open_rows[r]).id), now)

(***************************************************************************)
(* C2: the send decision.                                                  *)
(***************************************************************************)
\* C2: for every pair the loop over emails reaches, the send is skipped if
\* force-send is off, dev mode is off and the key is in the offering's
\* bucket, and otherwise send_email is called for the pair.
C2_SkipIffRecorded ==
    [][(pc = "pair" /\ j <= Len(emails)) =>
          IF ~force_send /\ ~dev_mode /\ CurKey \in DOMAIN ledger[CurId].e
          THEN sends' = sends /\ j' = j + 1 /\ pc' = "pair"
          ELSE /\ Len(sends') = Len(sends) + 1
               /\ sends'[Len(sends')].to = emails[j]
               /\ sends'[Len(sends')].id = CurId]_vars

(***************************************************************************)
(* C3: a transport failure ends the run and nothing is saved.              *)
(***************************************************************************)
\* C3: a failed send is the last send of its run, the run has ended with
\* the transport error, save_ledger was not called and the ledger file is
\* what it was when the run started.
C3_TransportFailureAborts ==
    /\ \A n \in 1..Len(sends) :
          ~sends[n].ok => (n = Len(sends) /\ pc = "done" /\ exit = "TransportError")
    /\ exit = "TransportError" => (io.writes = 0 /\ file = file0)

\* a run delivered to a pair and then died of a transport failure
C3_AbortAfterDelivery ==
    /\ exit = "TransportError"
    /\ ~dev_mode
    /\ Delivered(sends) # {}
    /\ ledger # EmptyMap
    /\ file = file0

(***************************************************************************)
(* C4: duplicate delivery after a partial failure.                         *)
(***************************************************************************)
\* C4: when a run that was not forced and not in dev mode delivered to some
\* pairs and died of a transport failure, the next such run with the same
\* inputs, if it completes, delivers to every one of those pairs again.
C4_AbortedDeliveriesRepeat ==
    (prevSent # {} /\ same /\ ~force_send /\ ~dev_mode /\ pc = "done" /\ exit = "0")
        => prevSent \subseteq Delivered(sends)

\* a pair is delivered to twice, by the aborted run and by the next
C4_DuplicateDelivery ==
    /\ prevSent # {} /\ same /\ ~force_send /\ ~dev_mode
    /\ prevSent \cap Delivered(sends) # {}

(***************************************************************************)
(* C5: when the ledger file is written.                                    *)
(***************************************************************************)
\* C5: a run writes the ledger file at most once, only after the loop over
\* all offerings has finished, only if a send succeeded and dev mode is off;
\* a run without a successful send leaves the file as it was.
C5_SavedOnceAtEnd ==
    /\ io.writes <= 1
    /\ io.writes = 1 =>
          /\ pc = "done" /\ exit = "0"
          /\ i > Len(open_rows)
          /\ Delivered(sends) # {}
          /\ ~dev_mode
    /\ file # file0 => io.writes = 1
    /\ Delivered(sends) = {} => file = file0

\* a run pruned entries, sent nothing and left the file alone
C5_PrunedButNotSaved ==
    /\ pc = "done" /\ exit = "0"
    /\ io.pruned
    /\ i > Len(open_rows)
    /\ sends = <<>>
    /\ file = file0
    /\ file.m # ledger

(***************************************************************************)
(* C6: dev-mode isolation.                                                 *)
(***************************************************************************)
\* C6: in a dev-mode run the ledger file is not read, pruned or written,
\* and stays what it was when the run started.
C6_DevModeLeavesLedgerFile ==
    dev_mode =>
        /\ io.reads = 0
        /\ io.writes = 0
        /\ ~io.pruned
        /\ file = file0

\* a dev-mode run delivered and then died of a transport failure
C6_DevRunDeliveredAndFailed ==
    /\ dev_mode
    /\ pc = "done" /\ exit = "TransportError"
    /\ Delivered(sends) # {}
    /\ sent_count > 0

(***************************************************************************)
(* C7: a closing date that does not parse.                                 *)
(***************************************************************************)
\* C7: an offering whose closing date is present and does not parse is
\* passed over: no email is sent for it and the run goes on.
C7_InvalidDateSkipped ==
    [][(pc = "pair" /\ j <= Len(emails) /\ BuildFails(open_rows[i])) =>
          /\ sends' = sends
          /\ exit' = "none"
          /\ pc' \in {"pair", "row"}]_vars

(***************************************************************************)
(* C8: an offering that lacks a field.                                     *)
(***************************************************************************)
\* C8: the loop passes over an offering that lacks Symbol, Opening Date or
\* Closing Date without touching the ledger or sending, and goes on to the
\* next offering.
C8_MissingFieldSkipped ==
    [][(pc = "row" /\ i <= Len(open_rows) /\ LacksField(open_rows[i])) =>
          /\ i' = i + 1
          /\ pc' = "row"
          /\ ledger' = ledger
          /\ sends' = sends
          /\ exit' = exit
          /\ file' = file]_vars

\* an offering without closing date was passed over, no bucket was made
\* for it, and the offering after it was sent
C8_SkippedThenProcessed ==
    /\ pc = "done" /\ exit = "0"
    /\ Len(open_rows) = 2
    /\ open_rows[1] = RowBlankClosing
    /\ IdA \notin DOMAIN ledger
    /\ IdB \in DOMAIN ledger
    /\ Delivered(sends) # {}

C10_MissingConfigReturns2 ==
    (cfg_missing /\ pc # "idle") =>
        /\ pc = "done"
        /\ exit = "2"
        /\ io = NoIo
        /\ sends = <<>>
        /\ file = file0

(***************************************************************************)
(* C11: no open offerings.                                                 *)
(***************************************************************************)
\* C11: once the scraper has returned no open offerings the run is done
\* with exit code 0, and it has fetched no contacts, has not loaded, pruned
\* or saved the ledger, and has sent no email.
C11_NoOfferingsEndsRun ==
    (io.scrapes = 1 /\ open_rows = <<>>) =>
        /\ pc = "done"
        /\ exit = "0"
        /\ io.fetches = 0
        /\ io.reads = 0
        /\ io.writes = 0
        /\ ~io.pruned
        /\ sends = <<>>
        /\ file = file0

\* a run outside dev mode found no offerings, a ledger file there to read
C11_EndedOnNoOfferings ==
    /\ pc = "done" /\ exit = "0"
    /\ io.scrapes = 1
    /\ open_rows = <<>>
    /\ ~dev_mode
    /\ file.kind = "json"

(***************************************************************************)
(* The helpers called on their own.  run_pipeline is at rest; `call` holds *)
(* the helper's name, its arguments, and the results of the calls made.    *)
(***************************************************************************)
pipeline_vars == <<file, now, ticks, runs, pc, exit, force_send, dev_mode,
                   dedupe_salt, open_rows, emails, ledger, sent_count, i, j,
                   sends, io, file0, cfg_missing, prevSent, same>>

AtRest == Idle /\ file = AbsentFile

(***************************************************************************)
(* prune_ledger on ledgers of type Dict[str, Dict[str, str]]: up to two    *)
(* offerings, buckets of up to MaxKeys keys (the empty bucket included),   *)
(* timestamps one day before the cutoff, at it, one day after it, a string *)
(* that is no timestamp, and a timestamp without UTC offset.  The second   *)
(* call is made on what the first left, at the same clock reading.         *)
(***************************************************************************)
MaxKeys == 2

PruneNow == RetentionDays + 10
PruneDays == {RetentionDays, RetentionDays - 1}

PruneStamps ==
    {[k |-> "aware", t |-> PruneNow - RetentionDays + d] : d \in {-1, 0, 1}}
        \cup {[k |-> "junk", t |-> 0],
              [k |-> "naive", t |-> PruneNow - RetentionDays + 1]}

PruneKeys == {hmac_hash(Salt, <<n>>) : n \in 1..MaxKeys}

PruneBuckets ==
    {[b |-> "dict", e |-> EmptyMap]}
        \cup UNION {{[b |-> "dict", e |-> f] : f \in [K -> PruneStamps]} :
                       K \in (SUBSET PruneKeys) \ {{}}}

PruneLedgers ==
    {EmptyMap} \cup UNION {[I -> PruneBuckets] : I \in (SUBSET {IdA, IdB}) \ {{}}}

InitPrune ==
    /\ AtRest
    /\ \E l \in PruneLedgers, days \in PruneDays :
          call = [fn |-> "prune_ledger",
                  arg |-> [ledger |-> l, days |-> days, now |-> PruneNow],
                  ret |-> <<>>]

\* prune_ledger(ledger, days), and once more on the same dict
CallPrune ==
    /\ call.fn = "prune_ledger"
    /\ Len(call.ret) < 2
    /\ LET l == IF call.ret = <<>> THEN call.arg.ledger ELSE call.ret[1].m
       IN  call' = [call EXCEPT !.ret =
                       Append(@, prune_ledger("dict", l, call.arg.days, call.arg.now))]
    /\ UNCHANGED pipeline_vars

NextPrune == CallPrune
SpecPrune == InitPrune /\ [][NextPrune]_vars

\* the record has a timestamp that parses and is at or after the cutoff
Retained(v, cutoff) == v.k \in {"aware", "naive"} /\ v.t >= cutoff

\* the records of m that are retained, and the offerings that have one
Kept(m, cutoff) ==
    LET live(id) == {k \in DOMAIN m[id].e : Retained(m[id].e[k], cutoff)}
        ids == {id \in DOMAIN m : live(id) # {}}
    IN  Restrict([id \in DOMAIN m |->
                     [b |-> "dict", e |-> Restrict(m[id].e, live(id))]], ids)

(***************************************************************************)
(* C12: the retention law.                                                 *)
(***************************************************************************)
\* C12: prune_ledger completes without error on every ledger, and leaves
\* exactly the records whose timestamp parses and is at or after
\* now - days, and no offering with an empty bucket.
C12_RetentionLaw ==
    (call.fn = "prune_ledger" /\ call.ret # <<>>) =>
        /\ call.ret[1].err = "none"
        /\ call.ret[1].m = Kept(call.arg.ledger, call.arg.now - call.arg.days)
        /\ \A id \in DOMAIN call.ret[1].m : call.ret[1].m[id].e # EmptyMap

BS == "\\"
LF == "\n"
CR == "\r"
EnDash == "U+2013"
Ka == "U+0915"

\* str.replace(c, r) for a one-character c
RECURSIVE Replace(_, _, _)
Replace(s, c, r) ==
    IF Len(s) <= 1 THEN (IF s = <<c>> THEN r ELSE s)
    ELSE LET h == Len(s) \div 2
         IN  Replace(SubSeq(s, 1, h), c, r) \o Replace(SubSeq(s, h + 1, Len(s)), c, r)

\* the backslash escaped after the other characters
ics_escape_BackslashLast(value) ==
    Replace(Replace(Replace(Replace(value, ";", <<BS, ";">>),
                            ",", <<BS, ",">>),
                    LF, <<BS, "n">>),
            BS, <<BS, BS>>)

\* lines 35-41
ics_escape(value) ==
    Replace(Replace(Replace(Replace(value, BS, <<BS, BS>>),
                            ";", <<BS, ";">>),
                    ",", <<BS, ",">>),
            LF, <<BS, "n">>)

\* the inverse transform of calendar text: a backslash and the character
\* after it read as that character, or as a newline for n and N
RECURSIVE Unescape(_)
Unescape(s) ==
    IF s = <<>> THEN <<>>
    ELSE IF Head(s) = BS /\ Len(s) >= 2
    THEN (IF s[2] \in {"n", "N"} THEN <<LF>> ELSE <<s[2]>>)
             \o Unescape(SubSeq(s, 3, Len(s)))
    ELSE <<Head(s)>> \o Unescape(Tail(s))

(***************************************************************************)
(* ics_escape on every text of up to MaxText characters.                   *)
(***************************************************************************)
MaxText == 4

EscapeAlphabet == {BS, ";", ",", LF, "n", "a"}

InitEscape ==
    /\ AtRest
    /\ \E t \in SeqsUpTo(EscapeAlphabet, MaxText) :
          call = [fn |-> "ics_escape", arg |-> t, ret |-> <<>>]

CallEscape ==
    /\ call.fn = "ics_escape"
    /\ call.ret = <<>>
    /\ call' = [call EXCEPT !.ret = <<ics_escape(call.arg)>>]
    /\ UNCHANGED pipeline_vars

NextEscape == CallEscape
SpecEscape == InitEscape /\ [][NextEscape]_vars

(***************************************************************************)
(* C17: escaping round trip.                                               *)
(***************************************************************************)
\* C17: the calendar-text unescape applied to ics_escape(text) gives text,
\* for every text over backslash, semicolon, comma, newline and ordinary
\* characters.
C17_EscapeRoundTrip ==
    (call.fn = "ics_escape" /\ call.ret # <<>>) =>
        Unescape(call.ret[1]) = call.arg

\* a text with a backslash before an n, and a newline, was escaped
C17_EscapedBackslashN ==
    /\ call.fn = "ics_escape"
    /\ call.ret # <<>>
    /\ call.arg = <<BS, "n", LF, ";">>
    /\ call.ret[1] = <<BS, BS, "n", BS, "n", BS, ";">>

(***************************************************************************)
(* build_ics and fold_ics.  A datetime is [y, m, d, min, s]: a calendar    *)
(* date, the minute of the day and the second.                             *)
(***************************************************************************)
\* minutes of NEPAL_TZ east of UTC, line 23
NEPAL_TZ == 345

CRLF == <<CR, LF>>

\* the string literals of lines 135-165 (the \\n of lines 140-141 is a
\* backslash and an n)
IcsText ==
    [
     begin_vcalendar |->
         <<"B", "E", "G", "I", "N", ":", "V", "C", "A", "L", "E", "N", "D",
         "A", "R">>,
     version |->
         <<"V", "E", "R", "S", "I", "O", "N", ":", "2", ".", "0">>,
     prodid |->
         <<"P", "R", "O", "D", "I", "D", ":", "-", "/", "/", "n", "e", "p",
         "-", "i", "p", "o", "-", "r", "e", "m", "i", "n", "d", "e", "r",
         "/", "/", "E", "N">>,
     calscale |->
         <<"C", "A", "L", "S", "C", "A", "L", "E", ":", "G", "R", "E", "G",
         "O", "R", "I", "A", "N">>,
     method |->
         <<"M", "E", "T", "H", "O", "D", ":", "R", "E", "Q", "U", "E", "S",
         "T">>,
     begin_vevent |->
         <<"B", "E", "G", "I", "N", ":", "V", "E", "V", "E", "N", "T">>,
     uid |->
         <<"U", "I", "D", ":">>,
     dtstamp |->
         <<"D", "T", "S", "T", "A", "M", "P", ":">>,
     organizer |->
         <<"O", "R", "G", "A", "N", "I", "Z", "E", "R", ";", "C", "N",
         "=">>,
     mailto |->
         <<":", "m", "a", "i", "l", "t", "o", ":">>,
     attendee |->
         <<"A", "T", "T", "E", "N", "D", "E", "E", ";", "C", "N", "=">>,
     attendee_params |->
         <<";", "R", "O", "L", "E", "=", "R", "E", "Q", "-", "P", "A", "R",
         "T", "I", "C", "I", "P", "A", "N", "T", ";", "P", "A", "R", "T",
         "S", "T", "A", "T", "=", "N", "E", "E", "D", "S", "-", "A", "C",
         "T", "I", "O", "N", ";", "R", "S", "V", "P", "=", "T", "R", "U",
         "E", ":", "m", "a", "i", "l", "t", "o", ":">>,
     summary |->
         <<"S", "U", "M", "M", "A", "R", "Y", ":">>,
     description |->
         <<"D", "E", "S", "C", "R", "I", "P", "T", "I", "O", "N", ":">>,
     dtstart |->
         <<"D", "T", "S", "T", "A", "R", "T", ":">>,
     dtend |->
         <<"D", "T", "E", "N", "D", ":">>,
     sequence |->
         <<"S", "E", "Q", "U", "E", "N", "C", "E", ":", "0">>,
     status |->
         <<"S", "T", "A", "T", "U", "S", ":", "C", "O", "N", "F", "I", "R",
         "M", "E", "D">>,
     transp |->
         <<"T", "R", "A", "N", "S", "P", ":", "O", "P", "A", "Q", "U",
         "E">>,
     end_vevent |->
         <<"E", "N", "D", ":", "V", "E", "V", "E", "N", "T">>,
     end_vcalendar |->
         <<"E", "N", "D", ":", "V", "C", "A", "L", "E", "N", "D", "A",
         "R">>,
     final_day |->
         <<"F", "i", "n", "a", "l", " ", "D", "a", "y", ":", " ">>,
     ipo |->
         <<"I", "P", "O">>,
     apply |->
         <<"F", "i", "n", "a", "l", " ", "d", "a", "y", " ", "t", "o", " ",
         "a", "p", "p", "l", "y", " ", "(", "9", ":", "0", "0", EnDash,
         "1", "0", ":", "0", "0", " ", "A", "M", " ", "N", "P", "T", " ",
         "r", "e", "m", "i", "n", "d", "e", "r", ")", ".", "\\", "n">>,
     close |->
         <<"C", "l", "o", "s", "e", ":", " ">>,
     manager |->
         <<"\\", "n", "I", "s", "s", "u", "e", " ", "M", "a", "n", "a",
         "g", "e", "r", ":", " ">>]

\* dict.get(key, default)
Get(opt, default) == IF opt = None THEN default ELSE opt[1]

\* n in decimal, zero-padded to w digits
Pad(n, w) ==
    [k \in 1..w |->
        <<"0", "1", "2", "3", "4", "5", "6", "7", "8", "9">>[((n \div (10 ^ (w - k))) % 10) + 1]]

\* strftime("%Y%m%dT%H%M%SZ")
strftime(dt) ==
    Pad(dt.y, 4) \o Pad(dt.m, 2) \o Pad(dt.d, 2) \o <<"T">>
        \o Pad(dt.min \div 60, 2) \o Pad(dt.min % 60, 2) \o Pad(dt.s, 2) \o <<"Z">>

\* dt + timedelta(minutes=n), for n within a day either way
AddMinutes(dt, n) ==
    LET u == dt.min + n
    IN  IF u < 0
        THEN IF dt.d > 1 THEN [dt EXCEPT !.d = @ - 1, !.min = u + 1440]
             ELSE IF dt.m > 1
             THEN [dt EXCEPT !.m = @ - 1, !.d = DaysInMonth(dt.y, dt.m - 1), !.min = u + 1440]
             ELSE [dt EXCEPT !.y = @ - 1, !.m = 12, !.d = 31, !.min = u + 1440]
        ELSE IF u >= 1440
        THEN IF dt.d < DaysInMonth(dt.y, dt.m) THEN [dt EXCEPT !.d = @ + 1, !.min = u - 1440]
             ELSE IF dt.m < 12 THEN [dt EXCEPT !.m = @ + 1, !.d = 1, !.min = u - 1440]
             ELSE [dt EXCEPT !.y = @ + 1, !.m = 1, !.d = 1, !.min = u - 1440]
        ELSE [dt EXCEPT !.min = u]

\* the wall-clock reading taken for the reading in UTC
astimezone_IgnoresOffset(dt, offset) == dt

\* dt.astimezone(timezone.utc), dt at `offset` minutes east of UTC
astimezone(dt, offset) == AddMinutes(dt, 0 - offset)

\* hashlib.sha256(...).hexdigest(): 64 hexadecimal digits (which ones plays
\* no part in the layout of the document)
sha256_hexdigest(value) == [n \in 1..64 |-> IF (n + Len(value)) % 2 = 0 THEN "e" ELSE "8"]

\* sep.join(lines)
RECURSIVE Join(_, _)
Join(lines, sep) ==
    IF lines = <<>> THEN <<>>
    ELSE IF Len(lines) = 1 THEN lines[1]
    ELSE lines[1] \o sep \o Join(Tail(lines), sep)

\* text.split("\r\n")
RECURSIVE Split(_)
Split(text) ==
    LET at == {k \in 1..(Len(text) - 1) : text[k] = CR /\ text[k + 1] = LF}
    IN  IF at = {} THEN <<text>>
        ELSE LET k == CHOOSE x \in at : \A y \in at : x <= y
             IN  <<SubSeq(text, 1, k - 1)>> \o Split(SubSeq(text, k + 2, Len(text)))

\* the rest of a long line carried on without the leading space
RECURSIVE FoldLine_NoSpace(_, _)
FoldLine_NoSpace(line, limit) ==
    IF Len(line) <= limit THEN <<line>>
    ELSE <<SubSeq(line, 1, limit)>>
             \o FoldLine_NoSpace(SubSeq(line, limit + 1, Len(line)), limit)

\* lines 49-54: one line of the document, cut into pieces
RECURSIVE FoldLine(_, _)
FoldLine(line, limit) ==
    IF Len(line) <= limit THEN <<line>>
    ELSE <<SubSeq(line, 1, limit)>>
             \o FoldLine(<<" ">> \o SubSeq(line, limit + 1, Len(line)), limit)

RECURSIVE FoldLines(_, _)
FoldLines(lines, limit) ==
    IF lines = <<>> THEN <<>>
    ELSE FoldLine(lines[1], limit) \o FoldLines(Tail(lines), limit)

\* lines 44-55
fold_ics(ics, limit) == Join(FoldLines(Split(ics), limit), CRLF)

\* lines 127-166: the document before folding, given the closing date
ics_unfolded(closing, row, issue_id, recipient, organizer_email, organizer_name, stamp) ==
    LET start_local == [y |-> closing.y, m |-> closing.m, d |-> closing.d,
                        min |-> 9 * 60, s |-> 0]
        end_local == AddMinutes(start_local, 60)
        start_utc == strftime(astimezone(start_local, NEPAL_TZ))
        end_utc == strftime(astimezone(end_local, NEPAL_TZ))
        uid == sha256_hexdigest(issue_id)
        summary == ics_escape(IcsText.final_day \o Get(row.Type, IcsText.ipo) \o <<" ">>
                                  \o Get(row.Company, <<>>) \o <<" ", "(">>
                                  \o Get(row.Symbol, <<>>) \o <<")">>)
        description == ics_escape(IcsText.apply \o IcsText.close
                                      \o Get(row.ClosingDate, <<>>) \o IcsText.manager
                                      \o Get(row.IssueManager, <<>>))
        lines == <<IcsText.begin_vcalendar, IcsText.version, IcsText.prodid,
                   IcsText.calscale, IcsText.method, IcsText.begin_vevent,
                   IcsText.uid \o uid,
                   IcsText.dtstamp \o strftime(stamp),
                   IcsText.organizer \o ics_escape(organizer_name) \o IcsText.mailto
                       \o organizer_email,
                   IcsText.attendee \o ics_escape(recipient) \o IcsText.attendee_params
                       \o recipient,
                   IcsText.summary \o summary,
                   IcsText.description \o description,
                   IcsText.dtstart \o start_utc,
                   IcsText.dtend \o end_utc,
                   IcsText.sequence, IcsText.status, IcsText.transp,
                   IcsText.end_vevent, IcsText.end_vcalendar>>
    IN  Join(lines, CRLF) \o CRLF

\* lines 119-167; [err |-> TRUE] is the ValueError of parse_iso_date
build_ics(row, issue_id, recipient, organizer_email, organizer_name, stamp) ==
    LET closing == parse_iso_date(row.ClosingDate[1])
    IN  IF closing.err THEN [err |-> TRUE, ics |-> <<>>]
        ELSE [err |-> FALSE,
              ics |-> fold_ics(ics_unfolded(closing, row, issue_id, recipient,
                                            organizer_email, organizer_name, stamp), 70)]

(***************************************************************************)
(* build_ics on its own: rows with closing dates at the ends of months and *)
(* years, on a leap day, and one that is no date; company names that are   *)
(* absent, short, MaxName characters long, and made of characters that are *)
(* escaped or take three octets.                                           *)
(***************************************************************************)
MaxName == 150

IcsDates ==
    {GoodDate,
     <<"2", "0", "2", "4", "-", "0", "2", "-", "2", "9">>,
     <<"2", "0", "2", "6", "-", "1", "2", "-", "3", "1">>,
     <<"2", "0", "2", "6", "-", "0", "1", "-", "0", "1">>,
     BadDate}

IcsCompanies ==
    {None,
     Some(<<"X">>),
     Some([n \in 1..MaxName |-> IF n % 7 = 0 THEN " " ELSE "a"]),
     Some(<<Ka, Ka, ";", ",", BS, LF, " ", Ka>>)}

IcsRows ==
    {[Type |-> t, Company |-> c, Symbol |-> Some(<<"A">>),
      ClosingDate |-> Some(d), IssueManager |-> im] :
        t \in {None, Some(<<"F", "P", "O">>)},
        c \in IcsCompanies,
        d \in IcsDates,
        im \in {None, Some(<<"M", ",", " ", "N">>)}}

IcsStamp == [y |-> 2026, m |-> 11, d |-> 3, min |-> 14 * 60 + 8, s |-> 7]

InitIcs ==
    /\ AtRest
    /\ \E row \in IcsRows,
          recipient \in {<<"a", "@", "x">>, <<"b", ";", "c", "@", "x">>},
          organizer_name \in {<<"O", "r", "g">>, <<"I", "P", "O", " ", "A", "l", "e", "r", "t", "s">>} :
          call = [fn |-> "build_ics",
                  arg |-> [row |-> row, issue_id |-> IdA, recipient |-> recipient,
                           organizer_email |-> <<"o", "@", "x">>,
                           organizer_name |-> organizer_name, stamp |-> IcsStamp],
                  ret |-> <<>>]

CallBuildIcs ==
    /\ call.fn = "build_ics"
    /\ call.ret = <<>>
    /\ call' = [call EXCEPT !.ret =
                   <<build_ics(call.arg.row, call.arg.issue_id, call.arg.recipient,
                               call.arg.organizer_email, call.arg.organizer_name,
                               call.arg.stamp)>>]
    /\ UNCHANGED pipeline_vars

NextIcs == CallBuildIcs
SpecIcs == InitIcs /\ [][NextIcs]_vars

\* build_ics returned a document
Built == call.fn = "build_ics" /\ call.ret # <<>> /\ ~call.ret[1].err

\* the document of the call before fold_ics
Unfolded ==
    ics_unfolded(parse_iso_date(call.arg.row.ClosingDate[1]), call.arg.row,
                 call.arg.issue_id, call.arg.recipient, call.arg.organizer_email,
                 call.arg.organizer_name, call.arg.stamp)

\* the lines of a document that begin with `prefix`
LinesWith(ics, prefix) ==
    LET lines == Split(ics)
    IN  {lines[n] : n \in {k \in 1..Len(lines) :
                              /\ Len(lines[k]) >= Len(prefix)
                              /\ SubSeq(lines[k], 1, Len(prefix)) = prefix}}

\* the length of a line in UTF-8 octets
Octets(line) == Len(line) + 2 * Cardinality({k \in 1..Len(line) : line[k] \in {EnDash, Ka}})

\* the lines of a document that begin with a space
Continuations(ics) ==
    LET lines == Split(ics)
    IN  {k \in 1..Len(lines) : lines[k] # <<>> /\ lines[k][1] = " "}

\* lines joined again, each CRLF that a space follows removed with the space
RECURSIVE Merge(_)
Merge(lines) ==
    IF lines = <<>> THEN <<>>
    ELSE IF Len(lines) = 1 THEN lines[1]
    ELSE IF lines[2] # <<>> /\ lines[2][1] = " "
    THEN lines[1] \o Merge(<<Tail(lines[2])>> \o SubSeq(lines, 3, Len(lines)))
    ELSE lines[1] \o CRLF \o Merge(Tail(lines))

Unfold(ics) == Merge(Split(ics))

(***************************************************************************)
(* C14: the window of the event.                                           *)
(***************************************************************************)
\* C14: for a closing date D that parses, the document has one DTSTART
\* line, 03:15:00Z on D, and one DTEND line, 04:15:00Z on D; for
\* 2026-02-09 they are 20260209T031500Z and 20260209T041500Z.
C14_EventWindow ==
    Built =>
        LET D == SelectSeq(call.arg.row.ClosingDate[1], LAMBDA c : c # "-")
            ics == call.ret[1].ics
        IN  /\ LinesWith(ics, IcsText.dtstart)
                   = {IcsText.dtstart \o D \o <<"T", "0", "3", "1", "5", "0", "0", "Z">>}
            /\ LinesWith(ics, IcsText.dtend)
                   = {IcsText.dtend \o D \o <<"T", "0", "4", "1", "5", "0", "0", "Z">>}
            /\ call.arg.row.ClosingDate[1] = GoodDate =>
                  /\ <<"D", "T", "S", "T", "A", "R", "T", ":", "2", "0", "2", "6", "0", "2", "0", "9", "T", "0", "3", "1", "5", "0", "0", "Z">> \in LinesWith(ics, IcsText.dtstart)
                  /\ <<"D", "T", "E", "N", "D", ":", "2", "0", "2", "6", "0", "2", "0", "9", "T", "0", "4", "1", "5", "0", "0", "Z">> \in LinesWith(ics, IcsText.dtend)

\* a document was built for a closing date on a leap day
C14_BuiltForLeapDay ==
    /\ Built
    /\ parse_iso_date(call.arg.row.ClosingDate[1]).m = 2
    /\ parse_iso_date(call.arg.row.ClosingDate[1]).d = 29
    /\ LinesWith(call.ret[1].ics, IcsText.dtstart) # {}

(***************************************************************************)
(* C15: the length of the folded lines.                                    *)
(***************************************************************************)
\* C15: no line of a document build_ics returns is longer than 70 octets
\* of UTF-8, and each line that fold_ics added begins with a space.
C15_LinesWithin70Octets ==
    Built =>
        LET lines == Split(call.ret[1].ics)
        IN  /\ \A n \in 1..Len(lines) : Octets(lines[n]) <= 70
            /\ Cardinality(Continuations(call.ret[1].ics))
                   = Len(lines) - Len(Split(Unfolded))

(***************************************************************************)
(* C16: folding round trip.                                                *)
(***************************************************************************)
\* C16: removing each CRLF that is followed by a space, together with the
\* space, from the document build_ics returns gives the document as it
\* was before fold_ics.
C16_UnfoldRestores ==
    Built => Unfold(call.ret[1].ics) = Unfolded

\* a document with a line cut more than once was built
C16_FoldedMoreThanOnce ==
    /\ Built
    /\ Len(Split(call.ret[1].ics)) >= Len(Split(Unfolded)) + 4
    /\ call.ret[1].ics # Unfolded

(***************************************************************************)
(* fetch_brevo_contacts, lines 100-116, one request at a time.  The list   *)
(* service answers a request with a page of at most fetch_limit contacts   *)
(* or with an error status; after MaxPages full pages the list is          *)
(* exhausted.  A contact is <<p, k>>: the k-th of the p-th page.           *)
(***************************************************************************)
\* `limit`, line 103
fetch_limit == 500

MaxPages == 2
MaxShort == 40

\* the sizes of the pages the service may return
PageSizes == (0..MaxShort) \cup {fetch_limit - 1, fetch_limit}

InitFetch ==
    /\ AtRest
    /\ call = [fn |-> "fetch_brevo_contacts", arg |-> <<>>, ret |-> <<>>,
               offset |-> 0, contacts |-> <<>>, requests |-> <<>>,
               pages |-> <<>>, err |-> FALSE]

\* `offset += limit` lost
FetchPage_SameOffset(size) ==
    /\ call.fn = "fetch_brevo_contacts"
    /\ call.ret = <<>> /\ ~call.err
    /\ Len(call.requests) = MaxPages => size < fetch_limit
    /\ LET batch == [k \in 1..size |-> <<Len(call.requests) + 1, k>>]
       IN  call' = [call EXCEPT
                       !.requests = Append(@, call.offset),
                       !.pages = Append(@, batch),
                       !.contacts = @ \o batch,
                       !.ret = IF size < fetch_limit
                               THEN <<call.contacts \o batch>> ELSE <<>>]
    /\ UNCHANGED pipeline_vars

\* lines 105-115: one turn of the loop, the service returning `size` contacts
FetchPage(size) ==
    /\ call.fn = "fetch_brevo_contacts"
    /\ call.ret = <<>> /\ ~call.err
    /\ Len(call.requests) = MaxPages => size < fetch_limit
    /\ LET batch == [k \in 1..size |-> <<Len(call.requests) + 1, k>>]
       IN  call' = [call EXCEPT
                       !.requests = Append(@, call.offset),
                       !.pages = Append(@, batch),
                       !.contacts = @ \o batch,
                       !.offset = IF size < fetch_limit THEN @ ELSE @ + fetch_limit,
                       !.ret = IF size < fetch_limit
                               THEN <<call.contacts \o batch>> ELSE <<>>]
    /\ UNCHANGED pipeline_vars

\* line 108: raise_for_status raises
FetchPageFails ==
    /\ call.fn = "fetch_brevo_contacts"
    /\ call.ret = <<>> /\ ~call.err
    /\ call' = [call EXCEPT !.requests = Append(@, call.offset), !.err = TRUE]
    /\ UNCHANGED pipeline_vars

NextFetch ==
    \/ \E size \in PageSizes : FetchPage(size)
    \/ FetchPageFails

SpecFetch == InitFetch /\ [][NextFetch]_vars

(***************************************************************************)
(* C18: pagination.                                                        *)
(***************************************************************************)
\* C18: the requests are made at offsets 0, 500, 1000, ... in this order;
\* every page but the last one requested is full; the function returns
\* right after the first page of fewer than 500 contacts, and returns all
\* pages concatenated in the order of the requests.
C18_Pagination ==
    call.fn = "fetch_brevo_contacts" =>
        /\ \A n \in 1..Len(call.requests) : call.requests[n] = (n - 1) * 500
        /\ \A n \in 1..Len(call.pages) :
              Len(call.pages[n]) < 500 => (n = Len(call.pages) /\ call.ret # <<>>)
        /\ call.ret # <<>> =>
              /\ Len(call.pages) = Len(call.requests)
              /\ Len(call.pages[Len(call.pages)]) < 500
              /\ call.ret[1] = Join(call.pages, <<>>)

\* pages of 500 and 1 contacts: requests at 0 and 500, 501 contacts returned
C18_TwoPages ==
    /\ call.fn = "fetch_brevo_contacts"
    /\ call.ret # <<>>
    /\ call.requests = <<0, 500>>
    /\ Len(call.ret[1]) = 501

(***************************************************************************)
(* fetch_open_issues, src/scrape_open_issues.py lines 49-86, on the table  *)
(* that extract_table hands it: the headers, and one dict per body row     *)
(* with a cell for every header.                                           *)
(***************************************************************************)
\* lines 12-21, the entries for the DEFAULT_TYPE_IDS of run_pipeline
TYPE_CONFIG == (1 :> "IPO") @@ (2 :> "FPO") @@ (3 :> "Right Share")

\* str.lower() on the letters of the basic alphabet
lower(s) ==
    LET upper == <<"A", "B", "C", "D", "E", "F", "G", "H", "I", "J", "K", "L", "M", "N", "O", "P", "Q", "R", "S", "T", "U", "V", "W", "X", "Y", "Z">>
        small == <<"a", "b", "c", "d", "e", "f", "g", "h", "i", "j", "k", "l", "m", "n", "o", "p", "q", "r", "s", "t", "u", "v", "w", "x", "y", "z">>
    IN  [k \in 1..Len(s) |->
            IF \E n \in 1..26 : upper[n] = s[k]
            THEN small[CHOOSE n \in 1..26 : upper[n] = s[k]]
            ELSE s[k]]

\* the status test of line 82 made without lower()
fetch_open_issues_CaseSensitive(type_id, headers, rows) ==
    LET status_keys == {n \in 1..Len(headers) :
                           lower(Strip(headers[n])) = <<"s", "t", "a", "t", "u", "s">>}
        status_key == headers[CHOOSE n \in status_keys : \A x \in status_keys : n <= x]
        open_rows_ == SelectSeq(rows, LAMBDA row : Strip(row[status_key]) = <<"o", "p", "e", "n">>)
    IN  IF type_id \notin DOMAIN TYPE_CONFIG \/ status_keys = {}
        THEN [err |-> TRUE, rows |-> <<>>]
        ELSE [err |-> FALSE,
              rows |-> [n \in 1..Len(open_rows_) |->
                           Put(Put(open_rows_[n], <<"T", "y", "p", "e">>, TYPE_CONFIG[type_id]),
                               <<"T", "y", "p", "e", "I", "d">>, type_id)]]

\* lines 49-86; [err |-> TRUE] is one of the two ValueErrors
fetch_open_issues(type_id, headers, rows) ==
    LET status_keys == {n \in 1..Len(headers) :
                           lower(Strip(headers[n])) = <<"s", "t", "a", "t", "u", "s">>}
        status_key == headers[CHOOSE n \in status_keys : \A x \in status_keys : n <= x]
        open_rows_ == SelectSeq(rows, LAMBDA row :
                          lower(Strip(row[status_key])) = <<"o", "p", "e", "n">>)
    IN  IF type_id \notin DOMAIN TYPE_CONFIG \/ status_keys = {}
        THEN [err |-> TRUE, rows |-> <<>>]
        ELSE [err |-> FALSE,
              rows |-> [n \in 1..Len(open_rows_) |->
                           Put(Put(open_rows_[n], <<"T", "y", "p", "e">>, TYPE_CONFIG[type_id]),
                               <<"T", "y", "p", "e", "I", "d">>, type_id)]]

MaxScraped == 2

\* the header of the status column as the page may spell it, or another
\* column in its place
StatusHeaders == {<<"S", "t", "a", "t", "u", "s">>, <<"S", "T", "A", "T", "U", "S">>, <<"S", "t", "a", "t", "e">>}

\* status cells that say open
OpenCells == {<<"O", "p", "e", "n">>, <<"o", "p", "e", "n">>, <<" ", "O", "P", "E", "N", " ">>}

\* status cells that do not
OtherCells == {<<"C", "l", "o", "s", "e", "d">>, <<"O", "p", "e", "n", "i", "n", "g">>, <<"R", "e", "-", "o", "p", "e", "n">>, <<>>}

InitScrape ==
    /\ AtRest
    /\ \E type_id \in {1, 3, 6}, h \in StatusHeaders :
          \E rows \in SeqsUpTo({(<<"S", "y", "m", "b", "o", "l">> :> sym) @@ (h :> cell) :
                                   sym \in {<<"A">>}, cell \in OpenCells \cup OtherCells},
                               MaxScraped) :
              call = [fn |-> "fetch_open_issues",
                      arg |-> [type_id |-> type_id, headers |-> <<<<"S", "y", "m", "b", "o", "l">>, h>>,
                               rows |-> rows],
                      ret |-> <<>>]

CallFetchOpenIssues ==
    /\ call.fn = "fetch_open_issues"
    /\ call.ret = <<>>
    /\ call' = [call EXCEPT !.ret =
                   <<fetch_open_issues(call.arg.type_id, call.arg.headers, call.arg.rows)>>]
    /\ UNCHANGED pipeline_vars

NextScrape == CallFetchOpenIssues
SpecScrape == InitScrape /\ [][NextScrape]_vars

(***************************************************************************)
(* C19: the open rows.                                                     *)
(***************************************************************************)
\* C19: fetch_open_issues returns, in table order, exactly the rows whose
\* Status cell says open (whatever the case and the white space around
\* it), each with the Type name and the TypeId of the requested type.
C19_ReturnsOpenRows ==
    (call.fn = "fetch_open_issues" /\ call.ret # <<>> /\ ~call.ret[1].err) =>
        LET h == call.arg.headers[2]
            open == SelectSeq(call.arg.rows, LAMBDA row : row[h] \in OpenCells)
            got == call.ret[1].rows
        IN  /\ Len(got) = Len(open)
            /\ \A n \in 1..Len(got) :
                  /\ got[n][<<"S", "y", "m", "b", "o", "l">>] = open[n][<<"S", "y", "m", "b", "o", "l">>]
                  /\ got[n][h] = open[n][h]
                  /\ got[n][<<"T", "y", "p", "e">>] = TYPE_CONFIG[call.arg.type_id]
                  /\ got[n][<<"T", "y", "p", "e", "I", "d">>] = call.arg.type_id

\* of a closed row and a row spelled OPEN the second was returned
C19_KeptSecondRow ==
    /\ call.fn = "fetch_open_issues"
    /\ call.ret # <<>>
    /\ ~call.ret[1].err
    /\ Len(call.arg.rows) = 2
    /\ call.arg.rows[1][call.arg.headers[2]] = <<"C", "l", "o", "s", "e", "d">>
    /\ Len(call.ret[1].rows) = 1
    /\ call.ret[1].rows[1][call.arg.headers[2]] = <<" ", "O", "P", "E", "N", " ">>
    /\ call.ret[1].rows[1][<<"T", "y", "p", "e">>] = "Right Share"

(***************************************************************************)
(* C20: the recipient in dev mode.                                         *)
(***************************************************************************)
\* the identities of the offerings the loop does not skip, in order
ProcessedIds ==
    LET kept == SelectSeq(open_rows, LAMBDA row : ~SkipsRow(row))
    IN  [n \in 1..Len(kept) |-> issue_id_from_row(kept[n]).id]

SentIds == [n \in 1..Len(sends) |-> sends[n].id]

\* C20, as claimed: a dev-mode run that got past the contact fetch has,
\* when it ends, made exactly one send_email call for every offering that
\* is not skipped, to the fixed test address (stated here for offerings
\* whose closing dates all parse).
C20_DevSendsOncePerOffering ==
    (/\ dev_mode /\ pc = "done" /\ io.fetches = 1
     /\ \A r \in 1..Len(open_rows) : SkipsRow(open_rows[r]) \/ ~BuildFails(open_rows[r])) =>
        /\ \A n \in 1..Len(sends) : sends[n].to = DEV_EMAIL
        /\ SentIds = ProcessedIds

\* C20, amended: in dev mode every send_email call is addressed to the
\* fixed test address and the calls follow the offerings that are not
\* skipped, one call each, in order; a run that returns 0 has made the
\* call for every one of them.
C20_DevSendsOnceUntilEnd ==
    dev_mode =>
        /\ \A n \in 1..Len(sends) : sends[n].to = DEV_EMAIL
        /\ Len(SentIds) <= Len(ProcessedIds)
        /\ SentIds = SubSeq(ProcessedIds, 1, Len(SentIds))
        /\ (pc = "done" /\ exit = "0" /\ io.fetches = 1) =>
              /\ SentIds = ProcessedIds
              /\ \A n \in 1..Len(sends) : sends[n].ok

\* a dev-mode run sent for two offerings and returned 0, a ledger file
\* on disk
C20_DevRunCompleted ==
    /\ dev_mode
    /\ pc = "done" /\ exit = "0"
    /\ Len(sends) = 2
    /\ Len(emails) = 1
    /\ file0.kind = "json"

(***************************************************************************)
(* C21: the DESCRIPTION value.                                             *)
(***************************************************************************)
\* the three parts of the description, before escaping
DescriptionParts ==
    <<SubSeq(IcsText.apply, 1, Len(IcsText.apply) - 2),
      IcsText.close \o Get(call.arg.row.ClosingDate, <<>>),
      SubSeq(IcsText.manager, 3, Len(IcsText.manager))
          \o Get(call.arg.row.IssueManager, <<>>)>>

\* C21: the DESCRIPTION value build_ics emits is the three parts of the
\* description, each character escaped once, with a backslash and an n
\* between the parts: it is what ics_escape gives for the parts separated
\* by line breaks, and it unescapes to them.
C21_DescriptionEscapedOnce ==
    Built =>
        /\ LinesWith(Unfold(call.ret[1].ics), IcsText.description)
               = {IcsText.description \o ics_escape(Join(DescriptionParts, <<LF>>))}
        /\ \A line \in LinesWith(Unfold(call.ret[1].ics), IcsText.description) :
              Unescape(SubSeq(line, Len(IcsText.description) + 1, Len(line)))
                  = Join(DescriptionParts, <<LF>>)

(***************************************************************************)
(* C22: what run_pipeline leaves on disk.                                  *)
(***************************************************************************)
\* C22: starting from no ledger file, whatever runs are made, the ledger
\* file is absent or is a mapping of identities to mappings that are not
\* empty, every timestamp in it one that parses with its UTC offset.
C22_LedgerFileInvariants ==
    /\ file.kind \in {"absent", "json"}
    /\ file.kind = "json" =>
          /\ file.top = "dict"
          /\ \A id \in DOMAIN file.m :
                /\ file.m[id].b = "dict"
                /\ file.m[id].e # EmptyMap
                /\ \A k \in DOMAIN file.m[id].e :
                      /\ file.m[id].e[k].k = "aware"
                      /\ fromisoformat(file.m[id].e[k]).err = "none"
                      /\ fromisoformat(file.m[id].e[k]).tz

\* a run wrote a ledger of two offerings, and the run after it died of a
\* transport failure
C22_WrittenThenAborted ==
    /\ runs = 2
    /\ exit = "TransportError"
    /\ file.kind = "json"
    /\ Cardinality(DOMAIN file.m) = 2
    /\ file = file0

(***************************************************************************)
(* C23: what a completed run has persisted.                                *)
(***************************************************************************)
\* C23: when a run that is not in dev mode has returned 0 past the early
\* exit, the ledger file holds, for every offering that was not skipped and
\* every recipient of the run, the pair's dedupe key under the offering's
\* identity.
C23_CompletedRunPersistsPairs ==
    (pc = "done" /\ exit = "0" /\ io.fetches = 1 /\ ~dev_mode) =>
        \A r \in 1..Len(open_rows), e \in 1..Len(emails) :
            ~SkipsRow(open_rows[r]) =>
                FileHasKey(file, issue_id_from_row(open_rows[r]).id,
                           KeyOf(emails[e], issue_id_from_row(open_rows[r]).id))

\* a second run, not forced, returned 0 having sent to a new recipient
\* and skipped the one the file already held
C23_SentAndSkippedThenSaved ==
    /\ runs = 2
    /\ pc = "done" /\ exit = "0" /\ io.fetches = 1
    /\ ~dev_mode /\ ~force_send
    /\ io.writes = 1
    /\ sends # <<>>
    /\ \E r \in 1..Len(open_rows), e \in 1..Len(emails) :
          /\ ~SkipsRow(open_rows[r])
          /\ <<emails[e], issue_id_from_row(open_rows[r]).id>> \notin Delivered(sends)
          /\ FileHasKey(file0, issue_id_from_row(open_rows[r]).id,
                        KeyOf(emails[e], issue_id_from_row(open_rows[r]).id))

(***************************************************************************)
(* C24: one send per pair within a run.                                    *)
(***************************************************************************)
\* C24: in a run with force-send and dev mode both off, no two send_email
\* calls are for the same recipient address and offering identity, however
\* often the address occurs among the contacts or the identity among the
\* scraped offerings.
C24_PairSentAtMostOnce ==
    (~force_send /\ ~dev_mode) =>
        \A m, n \in 1..Len(sends) :
            (sends[m].to = sends[n].to /\ sends[m].id = sends[n].id) => m = n

\* starting without a ledger file, a run met the same address twice and
\* the same identity twice, sent once and returned 0
C24_RepeatsSkippedInRun ==
    /\ runs = 1
    /\ pc = "done" /\ exit = "0"
    /\ ~force_send /\ ~dev_mode
    /\ file0 = AbsentFile
    /\ Len(emails) = 2 /\ emails[1] = emails[2]
    /\ Len(open_rows) = 2
    /\ \A r \in 1..2 : ~SkipsRow(open_rows[r])
    /\ issue_id_from_row(open_rows[1]).id = issue_id_from_row(open_rows[2]).id
    /\ Len(sends) = 1

====
